---- MODULE Spec2Model ----
(***************************************************************************)
(* Model of my-agent/src/register.ts: the ERC-8004 agent registration      *)
(* script.  One run of main() reads registration.json, encodes it as a     *)
(* base64 data URI, calls register() on the Identity Registry, waits for   *)
(* the receipt, extracts the agentId from the Registered event and writes  *)
(* the registry reference back into registration.json.                     *)
(*                                                                         *)
(* Text (the file's content, the output of JSON.stringify) is modelled at  *)
(* lexeme granularity: a text is a sequence of lexemes (punctuation,       *)
(* white space, string and number literals); one lexeme plays the role of  *)
(* one byte of the file.  JavaScript values are tagged records.            *)
(***************************************************************************)
EXTENDS Integers, Sequences, FiniteSets, TLC

\* ------------------------------------------------------------------ bounds
MaxRuns == 2
MaxLogs == 2
MaxEncLen == 3

\* ------------------------------------------------------- program constants
IDENTITY_REGISTRY == "0x8004AA63c570c570eBF15376c0dB199918BFe9Fb"
REGISTERED_EVENT_SIG == "0xca52e62c367d81bb2e328eb795f7c7ba24afb478408a26c0e201d155c449bc4a"
CHAIN_ID == 84532
AgentRegistryLocator == "eip155:84532:0x8004AA63c570c570eBF15376c0dB199918BFe9Fb"

\* ---------------------------------------------------------------- lexemes
Punct(c) == [t |-> "p", s |-> c, n |-> <<>>]
StrLex(s) == [t |-> "str", s |-> s, n |-> <<>>]
\* a number literal: the decimal digits, most significant first
NumLex(n) == [t |-> "num", s |-> "", n |-> n]
\* a line break followed by an indentation of 2 * d spaces
WsLex(d) == [t |-> "ws", s |-> "nl", n |-> <<d>>]
\* the single space JSON.stringify puts after a colon when indenting
Space == [t |-> "ws", s |-> " ", n |-> <<>>]
\* any other character of a file, given by its byte; it belongs to no JSON text
RawLex(b) == [t |-> "raw", s |-> "", n |-> <<b>>]

\* ------------------------------------------------------ JavaScript values
JsStr(s) == [t |-> "str", v |-> s]
\* a number: the decimal digits of its (non-negative, integral) value
JsNum(n) == [t |-> "num", v |-> n]
JsArr(es) == [t |-> "arr", v |-> es]
\* an object is the sequence of its own properties in insertion order
JsObj(ms) == [t |-> "obj", v |-> ms]
Member(k, x) == [k |-> k, v |-> x]
JsNull == [t |-> "null", v |-> 0]

HasKey(o, k) == \E i \in 1..Len(o.v) : o.v[i].k = k

GetKey(o, k) == (CHOOSE m \in {o.v[i] : i \in 1..Len(o.v)} : m.k = k).v

\* o[k] = x : an existing property keeps its position, a new one is appended
SetKey(o, k, x) ==
    IF HasKey(o, k)
    THEN JsObj([i \in 1..Len(o.v) |-> IF o.v[i].k = k THEN Member(k, x) ELSE o.v[i]])
    ELSE JsObj(Append(o.v, Member(k, x)))

\* ---------------------------------------------- JSON.stringify(value, null, 2)
RECURSIVE StringifyAt(_, _)
RECURSIVE StringifyElems(_, _, _)
RECURSIVE StringifyMembers(_, _, _)

StringifyElems(es, i, d) ==
    IF i > Len(es) THEN <<>>
    ELSE (IF i > 1 THEN <<Punct(",")>> ELSE <<>>) \o <<WsLex(d)>>
         \o StringifyAt(es[i], d) \o StringifyElems(es, i + 1, d)

StringifyMembers(ms, i, d) ==
    IF i > Len(ms) THEN <<>>
    ELSE (IF i > 1 THEN <<Punct(",")>> ELSE <<>>) \o <<WsLex(d)>>
         \o <<StrLex(ms[i].k), Punct(":"), Space>>
         \o StringifyAt(ms[i].v, d) \o StringifyMembers(ms, i + 1, d)

StringifyAt(x, d) ==
    CASE x.t = "str" -> <<StrLex(x.v)>>
      [] x.t = "num" -> <<NumLex(x.v)>>
      [] x.t = "null" -> <<Punct("null")>>
      [] x.t = "arr" ->
            IF x.v = <<>> THEN <<Punct("["), Punct("]")>>
            ELSE <<Punct("[")>> \o StringifyElems(x.v, 1, d + 1)
                 \o <<WsLex(d), Punct("]")>>
      [] x.t = "obj" ->
            IF x.v = <<>> THEN <<Punct("{"), Punct("}")>>
            ELSE <<Punct("{")>> \o StringifyMembers(x.v, 1, d + 1)
                 \o <<WsLex(d), Punct("}")>>

JSONStringify(x) == StringifyAt(x, 0)

\* ------------------------------------------------------------- JSON.parse
\* white space between lexemes is insignificant
RECURSIVE StripWs(_)
StripWs(txt) ==
    IF txt = <<>> THEN <<>>
    ELSE IF Head(txt).t = "ws" THEN StripWs(Tail(txt))
         ELSE <<Head(txt)>> \o StripWs(Tail(txt))

ParseFail == [ok |-> FALSE, val |-> JsNull, rest |-> <<>>]
ParseOk(x, rest) == [ok |-> TRUE, val |-> x, rest |-> rest]

IsPunct(txt, c) == txt # <<>> /\ Head(txt) = Punct(c)

RECURSIVE ParseValue(_)
RECURSIVE ParseElems(_, _)
RECURSIVE ParseMembers(_, _)

\* after "[" and the elements parsed so far: the next element
ParseElems(txt, acc) ==
    LET r == ParseValue(txt) IN
    IF ~r.ok THEN ParseFail
    ELSE IF IsPunct(r.rest, "]") THEN ParseOk(JsArr(Append(acc, r.val)), Tail(r.rest))
    ELSE IF IsPunct(r.rest, ",") THEN ParseElems(Tail(r.rest), Append(acc, r.val))
    ELSE ParseFail

\* after "{" and the members parsed so far: the next member
ParseMembers(txt, acc) ==
    IF Len(txt) < 2 \/ txt[1].t # "str" \/ txt[2] # Punct(":") THEN ParseFail
    ELSE LET r == ParseValue(SubSeq(txt, 3, Len(txt)))
             o == SetKey(acc, txt[1].s, r.val)
         IN IF ~r.ok THEN ParseFail
            ELSE IF IsPunct(r.rest, "}") THEN ParseOk(o, Tail(r.rest))
            ELSE IF IsPunct(r.rest, ",") THEN ParseMembers(Tail(r.rest), o)
            ELSE ParseFail

ParseValue(txt) ==
    IF txt = <<>> THEN ParseFail
    ELSE LET h == Head(txt) IN
         CASE h.t = "str" -> ParseOk(JsStr(h.s), Tail(txt))
           [] h.t = "num" -> ParseOk(JsNum(h.n), Tail(txt))
           [] h = Punct("null") -> ParseOk(JsNull, Tail(txt))
           [] h = Punct("[") ->
                 IF IsPunct(Tail(txt), "]") THEN ParseOk(JsArr(<<>>), Tail(Tail(txt)))
                 ELSE ParseElems(Tail(txt), <<>>)
           [] h = Punct("{") ->
                 IF IsPunct(Tail(txt), "}") THEN ParseOk(JsObj(<<>>), Tail(Tail(txt)))
                 ELSE ParseMembers(Tail(txt), JsObj(<<>>))
           [] OTHER -> ParseFail

\* the whole text must be one value; anything else is a SyntaxError
JSONParse(txt) ==
    LET r == ParseValue(StripWs(txt)) IN
    IF r.ok /\ r.rest = <<>> THEN r ELSE ParseFail

\* ------------------------------------ Buffer.from(text).toString('base64')
\* the byte that stands for one lexeme of a text
StrCode(s) ==
    CASE s = "name" -> 65 [] s = "A" -> 66 [] s = "B" -> 67
      [] s = "registrations" -> 68 [] s = "agentId" -> 69
      [] s = "agentRegistry" -> 70 [] s = "UNKNOWN" -> 71
      [] s = AgentRegistryLocator -> 72
      [] s = "eip155:11155111:0x8004AA63c570c570eBF15376c0dB199918BFe9Fb" -> 73
      [] OTHER -> 74

PunctCode(c) ==
    CASE c = "{" -> 123 [] c = "}" -> 125 [] c = "[" -> 91 [] c = "]" -> 93
      [] c = "," -> 44 [] c = ":" -> 58 [] OTHER -> 110

LexCode(l) ==
    CASE l.t = "p" -> PunctCode(l.s)
      [] l.t = "str" -> StrCode(l.s)
      [] l.t = "num" -> 128 + ((7 * Len(l.n) + 3 * l.n[1] + l.n[Len(l.n)]) % 128)
      [] l.t = "ws" -> IF l.s = " " THEN 32 ELSE 10 + (l.n[1] % 16)
      [] l.t = "raw" -> l.n[1] % 256

BufferFrom(txt) == [i \in 1..Len(txt) |-> LexCode(txt[i])]

\* the base64 digit 64 stands for the padding character "="
Base64Pad == 64

\* an encoder that leaves out the last, incomplete group of three bytes
RECURSIVE ToBase64_DropTail(_)
ToBase64_DropTail(bytes) ==
    IF Len(bytes) < 3 THEN <<>>
    ELSE
        <<bytes[1] \div 4, (bytes[1] % 4) * 16 + bytes[2] \div 16,
          (bytes[2] % 16) * 4 + bytes[3] \div 64, bytes[3] % 64>>
        \o ToBase64_DropTail(SubSeq(bytes, 4, Len(bytes)))

RECURSIVE ToBase64(_)
ToBase64(bytes) ==
    IF bytes = <<>> THEN <<>>
    ELSE IF Len(bytes) = 1 THEN
        <<bytes[1] \div 4, (bytes[1] % 4) * 16, Base64Pad, Base64Pad>>
    ELSE IF Len(bytes) = 2 THEN
        <<bytes[1] \div 4, (bytes[1] % 4) * 16 + bytes[2] \div 16,
          (bytes[2] % 16) * 4, Base64Pad>>
    ELSE
        <<bytes[1] \div 4, (bytes[1] % 4) * 16 + bytes[2] \div 16,
          (bytes[2] % 16) * 4 + bytes[3] \div 64, bytes[3] % 64>>
        \o ToBase64(SubSeq(bytes, 4, Len(bytes)))

DataUriPrefix == "data:application/json;base64,"

\* `data:application/json;base64,${base64Data}`
EncodeTokenURI(registrationText) ==
    [prefix |-> DataUriPrefix, base64 |-> ToBase64(BufferFrom(registrationText))]

\* ----------------------------------------------------------- environment
\* String.prototype.toLowerCase on the addresses that occur
LowerRegistry == "0x8004aa63c570c570ebf15376c0db199918bfe9fb"
OtherContract == "0x000000000000000000000000000000000000dEaD"
\* a comparison of addresses that keeps the case
ToLowerCase_KeepCase(s) == s

ToLowerCase(s) ==
    CASE s = IDENTITY_REGISTRY -> LowerRegistry
      [] s = OtherContract -> "0x000000000000000000000000000000000000dead"
      [] OTHER -> s

\* topics of a log: 32-byte words, here a signature hash, a uint256 or an
\* address; a uint256 is the sequence of its base-1000 limbs, most significant
\* first
SigTopic(h) == [s |-> h, n |-> <<>>]
UintTopic(n) == [s |-> "", n |-> n]
AddrTopic(a) == [s |-> a, n |-> <<>>]
TRANSFER_EVENT_SIG == "0xddf252ad1be2c89b69c2b068fc378daa952ba7f163c4a11628f55a4df523b3ef"
Owner == "0xf39Fd6e51aad88F6F4ce6aB8827279cffFb92266"

Log(a, topics, data) == [address |-> a, topics |-> topics, data |-> data]
RegisteredTopics(n) == <<SigTopic(REGISTERED_EVENT_SIG), UintTopic(n), AddrTopic(Owner)>>

\* the logs a receipt may carry
LogChoices == <<
    Log(IDENTITY_REGISTRY, RegisteredTopics(<<42>>), "uri"),
    Log(LowerRegistry, RegisteredTopics(<<0>>), "uri"),
    Log(IDENTITY_REGISTRY, RegisteredTopics(<<9, 7, 199, 254, 740, 993>>), "uri"),
    Log(IDENTITY_REGISTRY, RegisteredTopics(<<7>>), "malformed"),
    Log(IDENTITY_REGISTRY, <<SigTopic(REGISTERED_EVENT_SIG)>>, "uri"),
    Log(OtherContract, RegisteredTopics(<<9>>), "uri"),
    Log(IDENTITY_REGISTRY,
        <<SigTopic(TRANSFER_EVENT_SIG), AddrTopic(Owner), AddrTopic(Owner), UintTopic(<<42>>)>>, ""),
    Log(IDENTITY_REGISTRY, <<>>, "uri") >>

LogSeqs ==
    UNION {[1..n -> {LogChoices[i] : i \in 1..Len(LogChoices)}] : n \in 0..MaxLogs}

\* the value of process.env.PRIVATE_KEY: undefined, or a string of chunks
\* ("0x" is the prefix marker, "key" stands for 64 hex digits of a valid key)
EnvKey(def, s) == [def |-> def, s |-> s]
KeyChoices == <<
    EnvKey(FALSE, <<>>),
    EnvKey(TRUE, <<>>),
    EnvKey(TRUE, <<"0x", "key">>),
    EnvKey(TRUE, <<"key">>),
    EnvKey(TRUE, <<"0x", "nothex">>) >>

\* registration.json: absent, or a text
NoFile == [exists |-> FALSE, text |-> <<>>]
File(txt) == [exists |-> TRUE, text |-> txt]

OtherLocator == "eip155:11155111:0x8004AA63c570c570eBF15376c0dB199918BFe9Fb"
Entry(id, locator) ==
    JsObj(<<Member("agentId", id), Member("agentRegistry", JsStr(locator))>>)

RecordChoices == <<
    JsObj(<<Member("name", JsStr("A"))>>),
    JsObj(<<Member("name", JsStr("A")), Member("registrations", JsArr(<<>>))>>),
    JsObj(<<Member("name", JsStr("B")),
            Member("registrations", JsArr(<<Entry(JsNum(<<7>>), AgentRegistryLocator)>>))>>),
    JsObj(<<Member("registrations", JsArr(<<Entry(JsNum(<<5>>), OtherLocator)>>)),
            Member("name", JsStr("A"))>>),
    JsObj(<<Member("name", JsStr("A")),
            Member("registrations",
                   JsArr(<<Entry(JsNum(<<5>>), OtherLocator),
                           Entry(JsStr("UNKNOWN"), AgentRegistryLocator)>>))>>) >>

\* the file as the user may have left it: absent, empty, cut short, or a
\* record written with or without indentation
FileChoices ==
    <<NoFile, File(<<>>), File(<<Punct("{"), StrLex("name")>>)>>
    \o [i \in 1..Len(RecordChoices) |-> File(JSONStringify(RecordChoices[i]))]
    \o [i \in 1..Len(RecordChoices) |-> File(StripWs(JSONStringify(RecordChoices[i])))]

SubmitErrors == {"NetworkError", "FundsError", "NonceError", "TransactionRejected"}

\* ------------------------------------------------------------------ state
VARIABLES
    run,               \* number of invocations of the script so far
    pc,                \* position of the current invocation in main()
    privateKey,        \* process.env.PRIVATE_KEY
    disk,              \* registration.json
    preDisk,           \* registration.json when the current invocation started
    observed,          \* what an external reader of the file saw last
    registrationData,  \* line 66
    registration,      \* line 67
    tokenURI,          \* line 70
    hash,              \* line 99
    receipt,           \* line 108
    agentId,           \* line 120
    writeData,         \* the text fs.writeFile is writing
    error,             \* the exception that left main()
    console,           \* messages printed by the current invocation
    chain,             \* register() calls that reached the network
    exitStatus         \* exit status of the current invocation, -1 while it runs

vars == <<run, pc, privateKey, disk, preDisk, observed, registrationData,
          registration, tokenURI, hash, receipt, agentId, writeData, error,
          console, chain, exitStatus>>

NoURI == [prefix |-> "", base64 |-> <<>>]
NoReceipt == [present |-> FALSE, logs |-> <<>>]
Receipt(logs) == [present |-> TRUE, logs |-> logs]
NoError == "none"
Running == -1

Locals == <<registrationData, registration, tokenURI, hash, receipt, agentId, writeData>>

Init ==
    /\ run = 0
    /\ pc = "idle"
    /\ privateKey = EnvKey(FALSE, <<>>)
    /\ \E i \in 1..Len(FileChoices) : disk = FileChoices[i]
    /\ preDisk = disk
    /\ observed = disk
    /\ registrationData = <<>>
    /\ registration = JsNull
    /\ tokenURI = NoURI
    /\ hash = 0
    /\ receipt = NoReceipt
    /\ agentId = JsNull
    /\ writeData = <<>>
    /\ error = NoError
    /\ console = <<>>
    /\ chain = <<>>
    /\ exitStatus = Running

\* ---------------------------------------------------------------- helpers
\* a JavaScript string or null used as a condition
Truthy(x) == x.t = "str" /\ x.v # <<>>

\* digits without leading zeros; the last digit always stays
RECURSIVE StripLeadingZeros(_)
StripLeadingZeros(digits) ==
    IF Len(digits) > 1 /\ digits[1] = 0 THEN StripLeadingZeros(Tail(digits))
    ELSE digits

\* the three decimal digits of every base-1000 limb
RECURSIVE LimbDigits(_)
LimbDigits(limbs) ==
    IF limbs = <<>> THEN <<>>
    ELSE <<limbs[1] \div 100, (limbs[1] \div 10) % 10, limbs[1] % 10>>
         \o LimbDigits(Tail(limbs))

\* BigInt.prototype.toString(): the decimal digits, most significant first
BigIntToString(n) == StripLeadingZeros(LimbDigits(n))

\* a < b for digit sequences without leading zeros
RECURSIVE DigitsLess(_, _)
DigitsLess(a, b) ==
    IF Len(a) # Len(b) THEN Len(a) < Len(b)
    ELSE IF a = <<>> THEN FALSE
    ELSE IF a[1] # b[1] THEN a[1] < b[1]
    ELSE DigitsLess(Tail(a), Tail(b))

\* a + 1
RECURSIVE DigitsSucc(_)
DigitsSucc(a) ==
    IF a = <<>> THEN <<1>>
    ELSE IF a[Len(a)] < 9 THEN [a EXCEPT ![Len(a)] = @ + 1]
    ELSE Append(DigitsSucc(SubSeq(a, 1, Len(a) - 1)), 0)

\* 2^53 and 2^54: a Number holds every integer up to 2^53, and from 2^53 to
\* 2^54 the even ones only
TwoPow53 == <<9, 0, 0, 7, 1, 9, 9, 2, 5, 4, 7, 4, 0, 9, 9, 2>>
TwoPow54 == <<1, 8, 0, 1, 4, 3, 9, 8, 5, 0, 9, 4, 8, 1, 9, 8, 4>>

\* the Number nearest to an integer below 2^54, ties to the even significand
RoundToNumber(digits) ==
    LET last2 == IF Len(digits) = 1 THEN digits[1]
                 ELSE 10 * digits[Len(digits) - 1] + digits[Len(digits)]
    IN CASE DigitsLess(digits, TwoPow53) -> digits
         [] ~DigitsLess(digits, TwoPow53) /\ DigitsLess(digits, TwoPow54) ->
               CASE last2 % 2 = 0 -> digits
                 [] last2 % 4 = 1 -> [digits EXCEPT ![Len(digits)] = @ - 1]
                 [] last2 % 4 = 3 -> DigitsSucc(digits)

\* parseInt(digits, 10): the value of the digits as a Number
ParseInt(digits) == RoundToNumber(StripLeadingZeros(digits))

\* the predicate of receipt.logs.find (lines 115-117)
IsRegisteredLog(log) ==
    /\ ToLowerCase(log.address) = ToLowerCase(IDENTITY_REGISTRY)
    /\ log.topics # <<>>
    /\ log.topics[1].s = REGISTERED_EVENT_SIG

\* Array.prototype.find: the index of the first element that satisfies the
\* predicate, 0 when there is none (undefined)
RECURSIVE FindFrom(_, _)
FindFrom(logs, i) ==
    IF i > Len(logs) THEN 0
    ELSE IF IsRegisteredLog(logs[i]) THEN i
    ELSE FindFrom(logs, i + 1)

FindRegisteredLog(logs) == FindFrom(logs, 1)

\* viem decodeEventLog against IDENTITY_REGISTRY_ABI, whose only event is
\* Registered(uint256 indexed agentId, string agentURI, address indexed owner):
\* it throws when the signature is unknown, when indexed topics are missing
\* and when the data does not decode
DecodeEventLog(data, topics) ==
    IF topics = <<>> \/ topics[1].s # REGISTERED_EVENT_SIG
        THEN [threw |-> TRUE, eventName |-> "", agentId |-> <<>>]
    ELSE IF Len(topics) < 3 \/ data = "malformed"
        THEN [threw |-> TRUE, eventName |-> "", agentId |-> <<>>]
    ELSE [threw |-> FALSE, eventName |-> "Registered", agentId |-> topics[2].n]

\* lines 114-134: the agentId extracted from the receipt's logs, or null
ExtractAgentId(logs) ==
    LET i == FindRegisteredLog(logs) IN
    IF i = 0 THEN JsNull
    ELSE LET decoded == DecodeEventLog(logs[i].data, logs[i].topics) IN
         IF decoded.threw THEN JsNull
         ELSE IF decoded.eventName = "Registered"
              THEN JsStr(BigIntToString(decoded.agentId))
              ELSE JsNull

DecodeWarned(logs) ==
    LET i == FindRegisteredLog(logs) IN
    i # 0 /\ DecodeEventLog(logs[i].data, logs[i].topics).threw

\* lines 149-152 with no entry recorded when the agentId was not extracted
RegistrationsValue_OmitUnresolved(id) ==
    IF Truthy(id)
    THEN JsArr(<<Entry(JsNum(ParseInt(id.v)), AgentRegistryLocator)>>)
    ELSE JsArr(<<>>)

\* lines 149-152
RegistrationsValue(id) ==
    JsArr(<<Entry(IF Truthy(id) THEN JsNum(ParseInt(id.v)) ELSE JsStr("UNKNOWN"),
                  AgentRegistryLocator)>>)

\* line 81
FormattedKey(key) == IF key # <<>> /\ key[1] = "0x" THEN key ELSE <<"0x">> \o key

\* privateKeyToAccount accepts a 0x-prefixed 32-byte hex string
ValidKey(formatted) == formatted = <<"0x", "key">>

\* an exception leaves main(): the rejection reaches .catch(console.error)
Throw(e) ==
    /\ error' = e
    /\ pc' = "catch"

\* ---------------------------------------------------------------- actions
\* `npm run register`: a new invocation of the script; the file as it is now
\* is the pre-run file, and the external reader's observation starts from it
StartRun ==
    /\ pc \in {"idle", "exited"}
    /\ run < MaxRuns
    /\ run' = run + 1
    /\ \E i \in 1..Len(KeyChoices) : privateKey' = KeyChoices[i]
    /\ pc' = "checkKey"
    /\ preDisk' = disk
    /\ observed' = disk
    /\ registrationData' = <<>>
    /\ registration' = JsNull
    /\ tokenURI' = NoURI
    /\ hash' = 0
    /\ receipt' = NoReceipt
    /\ agentId' = JsNull
    /\ writeData' = <<>>
    /\ error' = NoError
    /\ console' = <<>>
    /\ exitStatus' = Running
    /\ UNCHANGED <<disk, chain>>

\* lines 58-61
CheckKey ==
    /\ pc = "checkKey"
    /\ IF ~privateKey.def \/ privateKey.s = <<>>
       THEN Throw("ConfigurationError")
       ELSE pc' = "readFile" /\ UNCHANGED error
    /\ UNCHANGED <<run, privateKey, disk, preDisk, observed, Locals, console,
                   chain, exitStatus>>

\* line 66
ReadFile ==
    /\ pc = "readFile"
    /\ IF ~disk.exists
       THEN Throw("InputError") /\ UNCHANGED registrationData
       ELSE /\ registrationData' = disk.text
            /\ pc' = "parse"
            /\ UNCHANGED error
    /\ UNCHANGED <<run, privateKey, disk, preDisk, observed, registration,
                   tokenURI, hash, receipt, agentId, writeData, console, chain,
                   exitStatus>>

\* line 67 with a parse failure swallowed: the run goes on with an empty record
ParseRegistration_Lenient ==
    /\ pc = "parse"
    /\ LET r == JSONParse(registrationData) IN
       registration' = IF r.ok THEN r.val ELSE JsObj(<<>>)
    /\ pc' = "encode"
    /\ UNCHANGED <<run, privateKey, disk, preDisk, observed, registrationData,
                   tokenURI, hash, receipt, agentId, writeData, error, console,
                   chain, exitStatus>>

\* line 67
ParseRegistration ==
    /\ pc = "parse"
    /\ LET r == JSONParse(registrationData) IN
       IF ~r.ok
       THEN Throw("InputError") /\ UNCHANGED registration
       ELSE /\ registration' = r.val
            /\ pc' = "encode"
            /\ UNCHANGED error
    /\ UNCHANGED <<run, privateKey, disk, preDisk, observed, registrationData,
                   tokenURI, hash, receipt, agentId, writeData, console, chain,
                   exitStatus>>

\* lines 69-78 with the URI built from the parsed record serialized again
EncodeURI_Reserialized ==
    /\ pc = "encode"
    /\ tokenURI' = EncodeTokenURI(JSONStringify(registration))
    /\ console' = console \o <<"encoding", "encoded">>
    /\ pc' = "wallet"
    /\ UNCHANGED <<run, privateKey, disk, preDisk, observed, registrationData,
                   registration, hash, receipt, agentId, writeData, error, chain,
                   exitStatus>>

\* lines 69-78
EncodeURI ==
    /\ pc = "encode"
    /\ tokenURI' = EncodeTokenURI(registrationData)
    /\ console' = console \o <<"encoding", "encoded">>
    /\ pc' = "wallet"
    /\ UNCHANGED <<run, privateKey, disk, preDisk, observed, registrationData,
                   registration, hash, receipt, agentId, writeData, error, chain,
                   exitStatus>>

\* lines 80-95 preceded by a guard that ends the run when the record already
\* holds an entry for this registry with a numeric agentId
SetupWallet_Guarded ==
    /\ pc = "wallet"
    /\ IF /\ HasKey(registration, "registrations")
          /\ \E i \in 1..Len(GetKey(registration, "registrations").v) :
                LET e == GetKey(registration, "registrations").v[i] IN
                /\ GetKey(e, "agentRegistry") = JsStr(AgentRegistryLocator)
                /\ GetKey(e, "agentId").t = "num"
       THEN pc' = "returned" /\ UNCHANGED <<console, error>>
       ELSE IF ~ValidKey(FormattedKey(privateKey.s))
       THEN Throw("ConfigurationError") /\ UNCHANGED console
       ELSE /\ console' = Append(console, "registering from")
            /\ pc' = "submit"
            /\ UNCHANGED error
    /\ UNCHANGED <<run, privateKey, disk, preDisk, observed, Locals, chain,
                   exitStatus>>

\* lines 80-95
SetupWallet ==
    /\ pc = "wallet"
    /\ IF ~ValidKey(FormattedKey(privateKey.s))
       THEN Throw("ConfigurationError") /\ UNCHANGED console
       ELSE /\ console' = Append(console, "registering from")
            /\ pc' = "submit"
            /\ UNCHANGED error
    /\ UNCHANGED <<run, privateKey, disk, preDisk, observed, Locals, chain,
                   exitStatus>>

\* lines 97-104 with the pending registration written to registration.json as
\* soon as the call is dispatched
SubmitTransaction_Persisting ==
    /\ pc = "submit"
    /\ console' = Append(console, "registering")
    /\ \/ /\ chain' = Append(chain, [uri |-> tokenURI, run |-> run])
          /\ hash' = Len(chain')
          /\ disk' = File(JSONStringify(
                        SetKey(registration, "registrations", JsArr(<<>>))))
          /\ pc' = "wait"
          /\ UNCHANGED error
       \/ /\ \E e \in SubmitErrors : Throw(e)
          /\ UNCHANGED <<chain, hash, disk>>
    /\ UNCHANGED <<run, privateKey, preDisk, observed, registrationData,
                   registration, tokenURI, receipt, agentId, writeData,
                   exitStatus>>

\* lines 97-104 with a failed call sent again
SubmitTransaction_Retrying ==
    /\ pc = "submit"
    /\ console' = Append(console, "registering")
    /\ \/ /\ chain' = Append(chain, [uri |-> tokenURI, run |-> run])
          /\ hash' = Len(chain')
          /\ pc' = "wait"
          /\ UNCHANGED error
       \/ /\ chain' = Append(chain, [uri |-> tokenURI, run |-> run])
          /\ Len(chain) < 2 * MaxRuns
          /\ UNCHANGED <<pc, error, hash>>
       \/ /\ \E e \in SubmitErrors : Throw(e)
          /\ UNCHANGED <<chain, hash>>
    /\ UNCHANGED <<run, privateKey, disk, preDisk, observed, registrationData,
                   registration, tokenURI, receipt, agentId, writeData,
                   exitStatus>>

\* lines 97-104: writeContract either dispatches the call and returns its
\* hash, or fails
SubmitTransaction ==
    /\ pc = "submit"
    /\ console' = Append(console, "registering")
    /\ \/ /\ chain' = Append(chain, [uri |-> tokenURI, run |-> run])
          /\ hash' = Len(chain')
          /\ pc' = "wait"
          /\ UNCHANGED error
       \/ /\ \E e \in SubmitErrors : Throw(e)
          /\ UNCHANGED <<chain, hash>>
    /\ UNCHANGED <<run, privateKey, disk, preDisk, observed, registrationData,
                   registration, tokenURI, receipt, agentId, writeData,
                   exitStatus>>

\* lines 106-108: waitForTransactionReceipt returns the receipt, or fails
\* once its wait is over
WaitForReceipt ==
    /\ pc = "wait"
    /\ console' = Append(console, "waiting")
    /\ \/ /\ \E logs \in LogSeqs : receipt' = Receipt(logs)
          /\ pc' = "decode"
          /\ UNCHANGED error
       \/ /\ Throw("ConfirmationTimeout")
          /\ UNCHANGED receipt
    /\ UNCHANGED <<run, privateKey, disk, preDisk, observed, registrationData,
                   registration, tokenURI, hash, agentId, writeData, chain,
                   exitStatus>>

\* lines 110-134 without the try/catch around decodeEventLog
DecodeEvent_NoCatch ==
    /\ pc = "decode"
    /\ IF DecodeWarned(receipt.logs)
       THEN Throw("EventDecodeFailure") /\ UNCHANGED agentId
       ELSE /\ agentId' = ExtractAgentId(receipt.logs)
            /\ pc' = "report"
            /\ UNCHANGED error
    /\ UNCHANGED <<run, privateKey, disk, preDisk, observed, registrationData,
                   registration, tokenURI, hash, receipt, writeData, console,
                   chain, exitStatus>>

\* lines 110-134
DecodeEvent ==
    /\ pc = "decode"
    /\ agentId' = ExtractAgentId(receipt.logs)
    /\ console' = IF DecodeWarned(receipt.logs)
                  THEN Append(console, "could not decode")
                  ELSE console
    /\ pc' = "report"
    /\ UNCHANGED <<run, privateKey, disk, preDisk, observed, registrationData,
                   registration, tokenURI, hash, receipt, writeData, error,
                   chain, exitStatus>>

\* lines 136-146; the receipt is not used after the decoding and is dropped
ReportSuccess ==
    /\ pc = "report"
    /\ console' = console \o <<"registered successfully">>
                  \o (IF Truthy(agentId) THEN <<"agent id">> ELSE <<>>)
    /\ receipt' = NoReceipt
    /\ pc' = "update"
    /\ UNCHANGED <<run, privateKey, disk, preDisk, observed, registrationData,
                   registration, tokenURI, hash, agentId, writeData, error,
                   chain, exitStatus>>

\* lines 148-153 with the new entry pushed onto the existing registrations
UpdateAndOpen_Appending ==
    /\ pc = "update"
    /\ registration' =
          SetKey(registration, "registrations",
                 JsArr((IF HasKey(registration, "registrations")
                        THEN GetKey(registration, "registrations").v ELSE <<>>)
                       \o RegistrationsValue(agentId).v))
    /\ writeData' = JSONStringify(registration')
    /\ \/ /\ disk' = File(<<>>)
          /\ pc' = "writing"
          /\ UNCHANGED error
       \/ /\ Throw("PersistenceError")
          /\ UNCHANGED disk
    /\ UNCHANGED <<run, privateKey, preDisk, observed, registrationData,
                   tokenURI, hash, receipt, agentId, console, chain, exitStatus>>

\* lines 148-153 with a record of the registrations alone written out
UpdateAndOpen_DroppingFields ==
    /\ pc = "update"
    /\ registration' = JsObj(<<Member("registrations", RegistrationsValue(agentId))>>)
    /\ writeData' = JSONStringify(registration')
    /\ \/ /\ disk' = File(<<>>)
          /\ pc' = "writing"
          /\ UNCHANGED error
       \/ /\ Throw("PersistenceError")
          /\ UNCHANGED disk
    /\ UNCHANGED <<run, privateKey, preDisk, observed, registrationData,
                   tokenURI, hash, receipt, agentId, console, chain, exitStatus>>

\* lines 148-153: the record is updated and serialized, and fs.writeFile
\* opens registration.json with flag 'w', which creates or truncates it
UpdateAndOpen ==
    /\ pc = "update"
    /\ registration' = SetKey(registration, "registrations", RegistrationsValue(agentId))
    /\ writeData' = JSONStringify(registration')
    /\ \/ /\ disk' = File(<<>>)
          /\ pc' = "writing"
          /\ UNCHANGED error
       \/ /\ Throw("PersistenceError")
          /\ UNCHANGED disk
    /\ UNCHANGED <<run, privateKey, preDisk, observed, registrationData,
                   tokenURI, hash, receipt, agentId, console, chain, exitStatus>>

\* line 153: fs.writeFile writes the text into the truncated file; the write
\* may fail after any part of the text has reached the file
WriteData ==
    /\ pc = "writing"
    /\ \/ /\ disk' = File(writeData)
          /\ pc' = "written"
          /\ UNCHANGED error
       \/ /\ \E k \in 0..(Len(writeData) - 1) : disk' = File(SubSeq(writeData, 1, k))
          /\ Throw("PersistenceError")
    /\ UNCHANGED <<run, privateKey, preDisk, observed, Locals, console, chain,
                   exitStatus>>

\* lines 155-160
FinalReport ==
    /\ pc = "written"
    /\ console' = Append(console, IF Truthy(agentId) THEN "json updated"
                                  ELSE "could not extract")
    /\ pc' = "returned"
    /\ UNCHANGED <<run, privateKey, disk, preDisk, observed, Locals, error,
                   chain, exitStatus>>

\* line 162: .catch(console.error) prints the error and handles the rejection
CatchError ==
    /\ pc = "catch"
    /\ console' = Append(console, error)
    /\ pc' = "caught"
    /\ UNCHANGED <<run, privateKey, disk, preDisk, observed, Locals, error,
                   chain, exitStatus>>

\* line 162: nothing is left to run and nothing set process.exitCode, so the
\* process ends with status 0 whether main() returned or threw
ExitProcess ==
    /\ pc \in {"returned", "caught"}
    /\ exitStatus' = 0
    /\ pc' = "exited"
    /\ UNCHANGED <<run, privateKey, disk, preDisk, observed, Locals, error,
                   console, chain>>

\* another process reads registration.json
ExternalRead ==
    /\ observed # disk
    /\ observed' = disk
    /\ UNCHANGED <<run, pc, privateKey, disk, preDisk, Locals, error, console,
                   chain, exitStatus>>

Next ==
    \/ StartRun
    \/ CheckKey
    \/ ReadFile
    \/ ParseRegistration
    \/ EncodeURI
    \/ SetupWallet
    \/ SubmitTransaction
    \/ WaitForReceipt
    \/ DecodeEvent
    \/ ReportSuccess
    \/ UpdateAndOpen
    \/ WriteData
    \/ FinalReport
    \/ CatchError
    \/ ExitProcess
    \/ ExternalRead

Spec == Init /\ [][Next]_vars

\* ------------------------------------------- the encoder on its own
\* the texts the encoder is applied to: every sequence of up to MaxEncLen
\* characters with the bytes of EncBytes
EncBytes == {0, 1, 63, 64, 127, 128, 254, 255}
EncTexts == UNION {[1..n -> {RawLex(b) : b \in EncBytes}] : n \in 0..MaxEncLen}

EncInit ==
    /\ run = 1
    /\ pc = "encode"
    /\ privateKey = EnvKey(TRUE, <<"key">>)
    /\ registrationData \in EncTexts
    /\ disk = File(registrationData)
    /\ preDisk = disk
    /\ observed = disk
    /\ registration = JsNull
    /\ tokenURI = NoURI
    /\ hash = 0
    /\ receipt = NoReceipt
    /\ agentId = JsNull
    /\ writeData = <<>>
    /\ error = NoError
    /\ console = <<>>
    /\ chain = <<>>
    /\ exitStatus = Running

EncNext == EncodeURI

SpecEnc == EncInit /\ [][EncNext]_vars

\* ------------------------------------------------- workflow vocabulary
\* the state of the registration workflow at a position of main()
Workflow ==
    IF error # NoError THEN "Aborted"
    ELSE CASE pc \in {"idle", "checkKey", "readFile", "parse", "encode", "wallet", "submit"}
                -> "Unregistered"
           [] pc = "wait" -> "Submitted"
           [] pc = "decode" -> "Confirmed"
           [] pc \in {"report", "update", "writing"}
                -> IF Truthy(agentId) THEN "Resolved" ELSE "Unresolved"
           [] pc \in {"written", "returned", "exited"} -> "Persisted"

\* the integer a decimal string denotes, as base-1000 limbs
RECURSIVE DecimalLimbs(_)
DecimalLimbs(digits) ==
    IF Len(digits) <= 3
    THEN <<IF Len(digits) = 1 THEN digits[1]
           ELSE IF Len(digits) = 2 THEN 10 * digits[1] + digits[2]
           ELSE 100 * digits[1] + 10 * digits[2] + digits[3]>>
    ELSE Append(DecimalLimbs(SubSeq(digits, 1, Len(digits) - 3)),
                100 * digits[Len(digits) - 2] + 10 * digits[Len(digits) - 1]
                + digits[Len(digits)])

\* the position of a workflow state in the order of the workflow
WorkflowRank(w) ==
    CASE w = "Unregistered" -> 1
      [] w = "Submitted" -> 2
      [] w = "Confirmed" -> 3
      [] w \in {"Resolved", "Unresolved"} -> 4
      [] w = "Persisted" -> 5
      [] w = "Aborted" -> 6

\* the position of a step in the text of the script
PcRank(p) ==
    CASE p = "idle" -> 0 [] p = "checkKey" -> 1 [] p = "readFile" -> 2
      [] p = "parse" -> 3 [] p = "encode" -> 4 [] p = "wallet" -> 5
      [] p = "submit" -> 6 [] p = "wait" -> 7 [] p = "decode" -> 8
      [] p = "report" -> 9 [] p = "update" -> 10 [] p = "writing" -> 11
      [] p = "written" -> 12 [] p = "returned" -> 13 [] p = "catch" -> 14
      [] p = "caught" -> 15 [] p = "exited" -> 16

\* the register() calls the current invocation has issued
SubmittedByRun(r) == {i \in 1..Len(chain) : chain[i].run = r}

\* the entries of a record's registrations whose registry is the given one
EntriesFor(rec, locator) ==
    IF rec.t # "obj" \/ ~HasKey(rec, "registrations") THEN {}
    ELSE LET regs == GetKey(rec, "registrations") IN
         IF regs.t # "arr" THEN {}
         ELSE {i \in 1..Len(regs.v) :
                 /\ regs.v[i].t = "obj"
                 /\ HasKey(regs.v[i], "agentRegistry")
                 /\ GetKey(regs.v[i], "agentRegistry") = JsStr(locator)}

\* ------------------------------------------------------------------ claims

\* C1: the exit status is zero only when the workflow reached Persisted; a
\* run that ended in an Aborted state has a non-zero exit status.
C1_ExitZeroOnlyWhenPersisted ==
    (pc = "exited" /\ exitStatus = 0) => Workflow = "Persisted"

\* C2: an external reader of registration.json sees the complete pre-run
\* text or the complete updated text, never a partial or truncated one.
C2_ReaderSeesCompleteRecord ==
    \/ observed = preDisk
    \/ writeData # <<>> /\ observed = File(writeData)

\* C3: when the write of the updated record cannot complete, the run is
\* Aborted(PersistenceError) and the file is as it was before the run.
C3_FailedWriteLeavesFile ==
    error = "PersistenceError" => (Workflow = "Aborted" /\ disk = preDisk)

\* C5: when waitForReceipt fails with a timeout the run is
\* Aborted(ConfirmationTimeout), no write of registration.json was started
\* and the file is identical to its pre-run content.
C5_TimeoutLeavesFile ==
    error = "ConfirmationTimeout" =>
        /\ Workflow = "Aborted"
        /\ writeData = <<>>
        /\ disk = preDisk

C5_Witness ==
    /\ error = "ConfirmationTimeout"
    /\ pc = "exited"
    /\ Cardinality(SubmittedByRun(run)) = 1
    /\ preDisk.exists

\* C6: one run issues the register call at most once, whatever fails later.
C6_AtMostOneSubmit ==
    \A r \in 1..run : Cardinality(SubmittedByRun(r)) <= 1

C6_Witness ==
    /\ run = 2
    /\ pc = "exited"
    /\ error = "PersistenceError"
    /\ Cardinality(SubmittedByRun(1)) = 1
    /\ Cardinality(SubmittedByRun(2)) = 1

\* C7: with a missing or invalid signing key, or a missing or unparsable
\* registration.json, the run submits no transaction and leaves the file
\* unchanged; a failed submitTransaction leaves the file unchanged.
C7_PreflightNoSideEffects ==
    LET badKey == \/ ~privateKey.def
                  \/ privateKey.s = <<>>
                  \/ ~ValidKey(FormattedKey(privateKey.s))
        badFile == ~preDisk.exists \/ ~JSONParse(preDisk.text).ok
    IN /\ (badKey \/ badFile) => (SubmittedByRun(run) = {} /\ disk = preDisk)
       /\ error \in SubmitErrors => disk = preDisk

C7_Witness ==
    /\ pc = "exited"
    /\ error = "InputError"
    /\ preDisk.exists
    /\ privateKey = EnvKey(TRUE, <<"key">>)
    /\ chain = <<>>

\* C8: after a successful run the record on disk holds exactly one
\* registrations entry for the network, also when the run started from a
\* record that already held one.
C8_OneEntryPerNetwork ==
    Workflow = "Persisted" =>
        /\ disk.exists
        /\ JSONParse(disk.text).ok
        /\ Cardinality(EntriesFor(JSONParse(disk.text).val, AgentRegistryLocator)) = 1

C8_Witness ==
    /\ run = 2
    /\ pc = "exited"
    /\ Workflow = "Persisted"
    /\ Len(chain) = 2
    /\ JSONParse(preDisk.text).ok
    /\ Cardinality(EntriesFor(JSONParse(preDisk.text).val, AgentRegistryLocator)) = 1
    /\ preDisk # disk

\* C9: the decoder uses the first log whose address is the registry's, in
\* any letter case, and whose first topic is the Registered signature; when
\* that log decodes with identifier n the outcome is Resolved(n), wherever
\* the log stands in the sequence.
C9_FirstMatchingLogResolves ==
    LET logs == receipt.logs
        matches(i) == /\ logs[i].address \in {IDENTITY_REGISTRY, LowerRegistry}
                      /\ Len(logs[i].topics) >= 1
                      /\ logs[i].topics[1] = SigTopic(REGISTERED_EVENT_SIG)
        decodes(i) == Len(logs[i].topics) = 3 /\ logs[i].data # "malformed"
    IN pc = "report" =>
         \A i \in 1..Len(logs) :
            (matches(i) /\ decodes(i) /\ \A j \in 1..(i - 1) : ~matches(j)) =>
                /\ Workflow = "Resolved"
                /\ agentId.t = "str"
                /\ DecimalLimbs(agentId.v) = logs[i].topics[2].n

C9_Witness ==
    /\ pc = "report"
    /\ Len(receipt.logs) = 2
    /\ receipt.logs[1].address = OtherContract
    /\ receipt.logs[2].address = LowerRegistry
    /\ agentId = JsStr(<<0>>)

\* C10: decoding never raises: the step after Confirmed is always the report
\* step with no error, and when no log matches, or the first matching log
\* does not decode, the outcome is Unresolved.
C10_DecoderNeverRaises ==
    [][pc = "decode" =>
         LET logs == receipt.logs
             matches(i) == /\ logs[i].address \in {IDENTITY_REGISTRY, LowerRegistry}
                           /\ Len(logs[i].topics) >= 1
                           /\ logs[i].topics[1] = SigTopic(REGISTERED_EVENT_SIG)
             decodes(i) == Len(logs[i].topics) = 3 /\ logs[i].data # "malformed"
             first == {i \in 1..Len(logs) : matches(i) /\ \A j \in 1..(i - 1) : ~matches(j)}
         IN /\ pc' = "report"
            /\ error' = NoError
            /\ (\A i \in first : ~decodes(i)) => agentId' = JsNull]_vars

C10_Witness ==
    /\ pc = "report"
    /\ error = NoError
    /\ Len(receipt.logs) = 2
    /\ receipt.logs[1] = Log(IDENTITY_REGISTRY, RegisteredTopics(<<7>>), "malformed")
    /\ receipt.logs[2] = Log(IDENTITY_REGISTRY, RegisteredTopics(<<42>>), "uri")
    /\ agentId = JsNull

\* C11: a run whose decoding is Unresolved is not a failure: it goes on to
\* the update of registration.json and, when the write succeeds, is Persisted
\* with the one entry {agentId: "UNKNOWN", agentRegistry: the locator}.
C11_UnresolvedPersists ==
    /\ [][(pc = "report" /\ ~Truthy(agentId)) =>
             (pc' = "update" /\ error' = NoError)]_vars
    /\ []((Workflow = "Persisted" /\ ~Truthy(agentId)) =>
             /\ JSONParse(disk.text).ok
             /\ HasKey(JSONParse(disk.text).val, "registrations")
             /\ GetKey(JSONParse(disk.text).val, "registrations")
                  = JsArr(<<Entry(JsStr("UNKNOWN"), AgentRegistryLocator)>>))

C11_Witness ==
    /\ pc = "exited"
    /\ error = NoError
    /\ agentId = JsNull
    /\ console[Len(console)] = "could not extract"
    /\ disk # preDisk
    /\ GetKey(JSONParse(disk.text).val, "registrations")
         = JsArr(<<Entry(JsStr("UNKNOWN"), AgentRegistryLocator)>>)

\* C12: when a run resolves identifier n, the persisted registrations is
\* exactly the one entry {agentId: n, agentRegistry: the locator}, whatever
\* registrations the input record held.
C12_ResolvedEntryExact ==
    (Workflow = "Persisted" /\ Truthy(agentId)) =>
        /\ JSONParse(disk.text).ok
        /\ HasKey(JSONParse(disk.text).val, "registrations")
        /\ GetKey(JSONParse(disk.text).val, "registrations")
             = JsArr(<<Entry(JsNum(agentId.v), AgentRegistryLocator)>>)

\* the inverse of the base64 encoding: four digits give three bytes, a
\* padded group gives one or two
RECURSIVE FromBase64(_)
FromBase64(digits) ==
    IF Len(digits) < 4 THEN <<>>
    ELSE (IF digits[3] = Base64Pad
          THEN <<digits[1] * 4 + digits[2] \div 16>>
          ELSE IF digits[4] = Base64Pad
          THEN <<digits[1] * 4 + digits[2] \div 16,
                 (digits[2] % 16) * 16 + digits[3] \div 4>>
          ELSE <<digits[1] * 4 + digits[2] \div 16,
                 (digits[2] % 16) * 16 + digits[3] \div 4,
                 (digits[3] % 4) * 64 + digits[4]>>)
         \o FromBase64(SubSeq(digits, 5, Len(digits)))

\* C13: the encoder is reversible: for every input M the URI carries the
\* declared content type and decodes to exactly the bytes of M (and, being a
\* function of M alone, it is the same URI every time).
C13_EncodeReversible ==
    pc = "wallet" =>
        /\ tokenURI.prefix = DataUriPrefix
        /\ \A i \in 1..Len(tokenURI.base64) : tokenURI.base64[i] \in 0..64
        /\ FromBase64(tokenURI.base64) = BufferFrom(registrationData)

C13_Witness ==
    /\ pc = "wallet"
    /\ BufferFrom(registrationData) = <<255, 0>>
    /\ tokenURI.base64 = <<63, 48, 0, Base64Pad>>
    /\ FromBase64(tokenURI.base64) = <<255, 0>>

\* C14: within a run the workflow states follow one another in the order
\* Unregistered, Submitted, Confirmed, Resolved or Unresolved, Persisted
\* (or Aborted), no step of the script is taken twice, the file is read at
\* the read step only, before anything was submitted, and it changes only in
\* the write that follows the decoding.
C14_WorkflowOrder ==
    [][run' = run =>
         /\ WorkflowRank(Workflow') >= WorkflowRank(Workflow)
         /\ (Workflow' # Workflow /\ Workflow' # "Aborted") =>
                WorkflowRank(Workflow') = WorkflowRank(Workflow) + 1
         /\ pc' # pc => PcRank(pc') > PcRank(pc)
         /\ registrationData' # registrationData =>
                (pc = "readFile" /\ SubmittedByRun(run) = {})
         /\ disk' # disk =>
                /\ pc \in {"update", "writing"}
                /\ Workflow \in {"Resolved", "Unresolved"}
                /\ Cardinality(SubmittedByRun(run)) = 1]_vars

C14_Witness ==
    /\ pc = "returned"
    /\ error = NoError
    /\ registrationData = preDisk.text
    /\ disk = File(writeData)
    /\ disk # preDisk
    /\ Cardinality(SubmittedByRun(run)) = 1

\* the record the run started from holds an entry for this registry with a
\* numeric agentId
C15_StartedRegistered ==
    LET pre == JSONParse(preDisk.text) IN
    /\ preDisk.exists
    /\ pre.ok
    /\ \E i \in EntriesFor(pre.val, AgentRegistryLocator) :
          LET e == GetKey(pre.val, "registrations").v[i] IN
          HasKey(e, "agentId") /\ GetKey(e, "agentId").t = "num"

\* C15: nothing looks at the record's registrations before the submission: a
\* run started on a record that already holds a resolved entry for the
\* network goes from parsing to the submission like any other run, a run
\* that ends without error has submitted its own register call, and the file
\* then holds one entry only, however many calls were made.
C15_NoIdempotencyGuard ==
    [][/\ (pc \in {"encode", "wallet"} /\ ValidKey(FormattedKey(privateKey.s))
           /\ C15_StartedRegistered) =>
             (error' = NoError /\ PcRank(pc') = PcRank(pc) + 1)
       /\ (Workflow = "Persisted" /\ C15_StartedRegistered) =>
             /\ Cardinality(SubmittedByRun(run)) = 1
             /\ Cardinality(EntriesFor(JSONParse(disk.text).val, AgentRegistryLocator)) = 1
             /\ Len(GetKey(JSONParse(disk.text).val, "registrations").v) = 1]_vars

C15_Witness ==
    /\ C15_StartedRegistered
    /\ run = 2
    /\ pc = "exited"
    /\ error = NoError
    /\ Truthy(agentId)
    /\ preDisk # disk
    /\ Len(chain) = 2
    /\ chain[1].run = 1
    /\ chain[2].run = 2
    /\ GetKey(JSONParse(preDisk.text).val, "registrations")
         = JsArr(<<Entry(JsNum(<<0>>), AgentRegistryLocator)>>)
    /\ GetKey(JSONParse(disk.text).val, "registrations")
         = JsArr(<<Entry(JsNum(<<4, 2>>), AgentRegistryLocator)>>)

\* C16: success is reported only for runs that reach Persisted: a run that
\* ended in Aborted(PersistenceError) has not printed the "registered
\* successfully" report.
C16_SuccessOnlyWhenPersisted ==
    error = "PersistenceError" =>
        \A i \in 1..Len(console) : console[i] # "registered successfully"

\* C17: the persisted record is the record parsed at the start of the run
\* with the registrations field replaced: every other field is there with
\* its value, and no other field appeared.
C17_OtherFieldsKept ==
    Workflow = "Persisted" =>
        LET pre == JSONParse(preDisk.text).val
            post == JSONParse(disk.text).val
            keys == {pre.v[i].k : i \in 1..Len(pre.v)}
                    \cup {post.v[i].k : i \in 1..Len(post.v)}
        IN /\ JSONParse(disk.text).ok
           /\ post.t = "obj"
           /\ HasKey(post, "registrations")
           /\ Len(post.v) = Len(pre.v) + (IF HasKey(pre, "registrations") THEN 0 ELSE 1)
           /\ \A k \in keys \ {"registrations"} :
                 /\ HasKey(pre, k)
                 /\ HasKey(post, k)
                 /\ GetKey(pre, k) = GetKey(post, k)

C17_Witness ==
    /\ pc = "exited"
    /\ error = NoError
    /\ preDisk = File(StripWs(JSONStringify(RecordChoices[4])))
    /\ JSONParse(disk.text).val.v[1].k = "registrations"
    /\ GetKey(JSONParse(disk.text).val, "registrations")
         # GetKey(RecordChoices[4], "registrations")
    /\ GetKey(JSONParse(disk.text).val, "name") = JsStr("A")

====
